---- MODULE Spec2Model ----
(***************************************************************************)
(* Model of the PDF compression service of src/index.js.                   *)
(*                                                                         *)
(* src/index.js holds two definitions of the same server (lines 1-512 and  *)
(* lines 514-874).  The variable handlerDef says which of the two is the   *)
(* running program; it is chosen in Init and never changes.                *)
(*                                                                         *)
(* Strings whose characters matter (file names, paths, the command tail)   *)
(* are sequences of one-character strings; Date.now() and the fixed        *)
(* directory prefixes are single tokens of such a sequence.                *)
(***************************************************************************)
EXTENDS Integers, Sequences, FiniteSets, TLC

(***************************************************************************)
(* Bounds of the model.                                                    *)
(***************************************************************************)
\* Date.now() ranges over 0..MaxTime.
MaxTime == 1

\* The requests that may arrive.
Reqs == {1, 2}

(***************************************************************************)
(* Characters.                                                             *)
(***************************************************************************)
DQ == "\""
SP == " "
TAB == "\t"
DOT == "."
SLASH == "/"
USCORE == "_"
HYPHEN == "-"
DOLLAR == "$"
\* the backquote character (SANY's lexer does not accept it in a string)
BACKTICK == "<backquote>"
SEMI == ";"
BACKSLASH == "\\"
\* a character outside ASCII, such as e-acute
NONASCII == "<e-acute>"

LowerLetters == {"a", "b", "c", "d", "e", "f", "g", "h", "i", "j", "k", "l", "m",
                 "n", "o", "p", "q", "r", "s", "t", "u", "v", "w", "x", "y", "z"}
UpperLetters == {"A", "B", "C", "D", "E", "F", "G", "H", "I", "J", "K", "L", "M",
                 "N", "O", "P", "Q", "R", "S", "T", "U", "V", "W", "X", "Y", "Z"}
Letters == LowerLetters \cup UpperLetters
Digits == {"0", "1", "2", "3", "4", "5", "6", "7", "8", "9"}

\* \s of a JavaScript regular expression (the members the model uses)
IsWhitespace(c) == c \in {SP, TAB}

\* [a-zA-Z0-9]
IsAlnum(c) == c \in Letters \cup Digits

\* case-insensitive comparison of one character, as the /i flag does
Lower(c) ==
  CASE c = "P" -> "p"
    [] c = "D" -> "d"
    [] c = "F" -> "f"
    [] OTHER -> c

(***************************************************************************)
(* String.prototype methods used by the handlers.                          *)
(***************************************************************************)
\* s.slice(from, to) with 0-based from (inclusive) and to (exclusive)
Slice(s, from, to) == IF to <= from THEN <<>> ELSE SubSeq(s, from + 1, to)

\* s.replace(/[^...]/g, "_") : every character outside the class becomes "_"
RECURSIVE ReplaceOutside(_, _)
ReplaceOutside(s, allowed) ==
  IF s = <<>> THEN <<>>
  ELSE <<IF IsAlnum(Head(s)) \/ Head(s) \in allowed THEN Head(s) ELSE USCORE>>
       \o ReplaceOutside(Tail(s), allowed)

\* s.replace(/\s+/g, "_") : every maximal run of whitespace becomes one "_"
RECURSIVE ReplaceWhitespaceRuns(_)
ReplaceWhitespaceRuns(s) ==
  IF s = <<>> THEN <<>>
  ELSE IF IsWhitespace(Head(s))
       THEN IF Len(s) > 1 /\ IsWhitespace(s[2])
            THEN ReplaceWhitespaceRuns(Tail(s))
            ELSE <<USCORE>> \o ReplaceWhitespaceRuns(Tail(s))
       ELSE <<Head(s)>> \o ReplaceWhitespaceRuns(Tail(s))

\* s.replace(/__+/g, "_") : every run of two or more "_" becomes one "_"
RECURSIVE CollapseUnderscores(_)
CollapseUnderscores(s) ==
  IF s = <<>> THEN <<>>
  ELSE IF Head(s) = USCORE /\ Len(s) > 1 /\ s[2] = USCORE
       THEN CollapseUnderscores(Tail(s))
       ELSE <<Head(s)>> \o CollapseUnderscores(Tail(s))

\* s.replace(/^_+|_+$/g, "") : leading and trailing "_" removed
RECURSIVE StripLeadingUnderscores(_)
StripLeadingUnderscores(s) ==
  IF s # <<>> /\ Head(s) = USCORE THEN StripLeadingUnderscores(Tail(s)) ELSE s

RECURSIVE StripTrailingUnderscores(_)
StripTrailingUnderscores(s) ==
  IF s # <<>> /\ s[Len(s)] = USCORE
  THEN StripTrailingUnderscores(SubSeq(s, 1, Len(s) - 1))
  ELSE s

StripUnderscores(s) == StripTrailingUnderscores(StripLeadingUnderscores(s))

\* s.replace(/\.pdf$/i, "")
StripPdfSuffix(s) ==
  LET n == Len(s) IN
  IF n >= 4 /\ s[n - 3] = DOT /\ Lower(s[n - 2]) = "p"
     /\ Lower(s[n - 1]) = "d" /\ Lower(s[n]) = "f"
  THEN SubSeq(s, 1, n - 4)
  ELSE s

\* s.trim()
RECURSIVE TrimStart(_)
TrimStart(s) == IF s # <<>> /\ IsWhitespace(Head(s)) THEN TrimStart(Tail(s)) ELSE s

RECURSIVE TrimEnd(_)
TrimEnd(s) ==
  IF s # <<>> /\ IsWhitespace(s[Len(s)]) THEN TrimEnd(SubSeq(s, 1, Len(s) - 1)) ELSE s

Trim(s) == TrimEnd(TrimStart(s))

StartsWithDot(s) == s # <<>> /\ Head(s) = DOT
EndsWithDot(s) == s # <<>> /\ s[Len(s)] = DOT

(***************************************************************************)
(* path.extname and path.basename of Node (POSIX flavour: the service is   *)
(* packaged for a Linux image), as called at src/index.js:565-566.         *)
(***************************************************************************)
\* index (0-based, exclusive) of the end of the last path component: trailing
\* slashes are skipped; 0 when the path has no component
RECURSIVE ComponentEnd(_, _)
ComponentEnd(path, i) ==
  IF i = 0 THEN 0
  ELSE IF path[i] = SLASH THEN ComponentEnd(path, i - 1) ELSE i

\* index (0-based) of the start of the component that ends at end
RECURSIVE ComponentStart(_, _)
ComponentStart(path, end) ==
  IF end = 0 THEN 0
  ELSE IF path[end] = SLASH THEN end ELSE ComponentStart(path, end - 1)

\* the last path component, without trailing slashes
LastComponent(path) ==
  LET end == ComponentEnd(path, Len(path)) IN
  Slice(path, ComponentStart(path, end), end)

\* 0-based index of the last "." of s, or -1
RECURSIVE LastDot(_, _)
LastDot(s, i) ==
  IF i = 0 THEN -1 ELSE IF s[i] = DOT THEN i - 1 ELSE LastDot(s, i - 1)

\* path.extname(path): from the last "." of the last component to its end; ""
\* when there is no ".", when the only "." is the first character of the
\* component, or when the component is exactly ".."
extname(path) ==
  LET comp == LastComponent(path)
      startDot == LastDot(comp, Len(comp))
      preDotState == IF startDot <= 0 THEN 0
                     ELSE IF comp[1] = DOT THEN 1 ELSE -1
  IN IF \/ startDot = -1
        \/ comp = <<>>
        \/ preDotState = 0
        \/ (preDotState = 1 /\ startDot = Len(comp) - 1 /\ startDot = 1)
     THEN <<>>
     ELSE Slice(comp, startDot, Len(comp))

EndsWith(s, suffix) ==
  /\ Len(suffix) <= Len(s)
  /\ SubSeq(s, Len(s) - Len(suffix) + 1, Len(s)) = suffix

\* path.basename(path, suffix): the last component with the suffix removed; the
\* suffix is kept when it is the whole component.  (Exact for every suffix no
\* longer than the component, which holds of every suffix extname returns.)
basename(path, suffix) ==
  LET comp == LastComponent(path) IN
  IF suffix # <<>> /\ Len(suffix) <= Len(path)
  THEN IF suffix = path THEN <<>>
       ELSE IF EndsWith(comp, suffix) /\ Len(suffix) < Len(comp)
            THEN SubSeq(comp, 1, Len(comp) - Len(suffix))
            ELSE comp
  ELSE comp

(***************************************************************************)
(* File naming.                                                            *)
(***************************************************************************)
\* Date.now() interpolated into a string, as one token
TimeToken(t) == ToString(t)

PDF_EXT == <<DOT, "p", "d", "f">>

\* multer.diskStorage filename: the name of the staged upload
StorageFilename(def, t, originalname) ==
  IF def = 1
  THEN <<TimeToken(t), HYPHEN>> \o ReplaceWhitespaceRuns(originalname)
  ELSE <<TimeToken(t), HYPHEN>> \o ReplaceOutside(originalname, {DOT, USCORE, HYPHEN})

\* req.file.path: multer joins destination and filename
UploadPath(def, t, originalname) ==
  <<"uploads/">> \o StorageFilename(def, t, originalname)

\* first definition: originalNameSanitized
originalNameSanitized(originalname) ==
  StripPdfSuffix(ReplaceOutside(originalname, {DOT}))

\* second definition: baseName after the extension handling of lines 563-575
baseName(originalname) ==
  LET originalFileName == Trim(originalname)
      originalFileExtension == extname(originalFileName)
      b0 == basename(originalFileName, originalFileExtension)
      b1 == IF b0 = <<>> /\ StartsWithDot(originalFileName)
            THEN <<"f", "i", "l", "e", USCORE, "f", "r", "o", "m", USCORE,
                   "e", "x", "t", "e", "n", "s", "i", "o", "n">>
            ELSE IF EndsWithDot(originalFileName) /\ originalFileExtension = <<DOT>>
                 THEN SubSeq(originalFileName, 1, Len(originalFileName) - 1)
                 ELSE b0
  IN IF b1 = <<>> THEN <<"u", "n", "t", "i", "t", "l", "e", "d">> ELSE b1

\* second definition: sanitizedBaseName
sanitizedBaseName(originalname) ==
  StripUnderscores(CollapseUnderscores(
    ReplaceOutside(baseName(originalname), {USCORE, HYPHEN})))

\* a default base name that has an extension of its own
finalBaseName_DottedDefault(originalname) ==
  LET s == sanitizedBaseName(originalname) IN
  IF s = <<>>
  THEN <<"c", "o", "m", "p", "r", "e", "s", "s", "e", "d", DOT,
         "d", "o", "c", "u", "m", "e", "n", "t">>
  ELSE s

\* second definition: finalBaseName
finalBaseName(originalname) ==
  LET s == sanitizedBaseName(originalname) IN
  IF s = <<>>
  THEN <<"c", "o", "m", "p", "r", "e", "s", "s", "e", "d", USCORE,
         "d", "o", "c", "u", "m", "e", "n", "t">>
  ELSE s

\* the base name either definition puts into outputFileName
outputBaseName(def, originalname) ==
  IF def = 1 THEN originalNameSanitized(originalname) ELSE finalBaseName(originalname)

\* file.originalname of the uploads the model sends: a plain name, and a name
\* with whitespace, shell metacharacters and an upper-case extension (the
\* multipart parser hands the handler the last path component of the client's
\* file name, so no name has a path separator)
PlainName == <<"a", DOT, "p", "d", "f">>
HostileName == <<DQ, SEMI, DOLLAR, SP, BACKTICK, "b", DOT, "P", "D", "F">>
OriginalNames == {PlainName, HostileName}

\* the output base names of the names the requests send, in either definition
OutputBaseNames ==
  [def \in {1, 2} |-> [n \in OriginalNames |-> outputBaseName(def, n)]]

\* outputFileName of either definition (the base names of the names the
\* requests send are taken from the table OutputBaseNames, computed once)
outputFileName(def, t, originalname) ==
  <<"compressed-", TimeToken(t), HYPHEN>>
  \o (IF originalname \in OriginalNames
      THEN OutputBaseNames[def][originalname]
      ELSE outputBaseName(def, originalname))
  \o PDF_EXT

\* outputPath: path.join of the output directory and outputFileName
OutputPath(def, t, originalname) ==
  <<"compressed_pdfs/">> \o outputFileName(def, t, originalname)

(***************************************************************************)
(* compressionSettings and the lookup compressionSettings[compressionLevel] *)
(***************************************************************************)
\* what a template literal prints for a value that is undefined
UNDEFINED == "undefined"

\* the table with the resolution of the middle profile repeated for the high one
compressionSettings_RepeatedResolution ==
  [little |-> [level |-> "/screen",  imageResolution |-> <<"7", "2">>],
   middle |-> [level |-> "/ebook",   imageResolution |-> <<"1", "5", "0">>],
   high   |-> [level |-> "/printer", imageResolution |-> <<"1", "5", "0">>]]

\* the table of lines 23-27 and 538-542, the same in both definitions
compressionSettings ==
  [little |-> [level |-> "/screen",  imageResolution |-> <<"7", "2">>],
   middle |-> [level |-> "/ebook",   imageResolution |-> <<"1", "5", "0">>],
   high   |-> [level |-> "/printer", imageResolution |-> <<"3", "0", "0">>]]

\* members every object literal inherits from Object.prototype
ObjectPrototypeMembers ==
  {"constructor", "toString", "__proto__", "hasOwnProperty", "valueOf"}

\* the value of a missing property
Undefined == [kind |-> "undefined", level |-> UNDEFINED, imageResolution |-> <<UNDEFINED>>]

\* compressionSettings[key]: an own property, else an inherited member (a
\* function or object that has neither .level nor .imageResolution), else
\* undefined
Lookup(key) ==
  IF key \in DOMAIN compressionSettings
  THEN [kind |-> "profile",
        level |-> compressionSettings[key].level,
        imageResolution |-> compressionSettings[key].imageResolution]
  ELSE IF key \in ObjectPrototypeMembers
       THEN [kind |-> "inherited", level |-> UNDEFINED, imageResolution |-> <<UNDEFINED>>]
       ELSE Undefined

\* a check of the looked-up value that lets no value pass
Truthy_Never(settings) == FALSE

\* JavaScript truthiness of a looked-up value
Truthy(settings) == settings.kind # "undefined"

\* req.body.compressionLevel of a request that sends no such field or an empty one
NoLevel == ""

\* a default that falls back to the little tier
compressionLevel_DefaultLittle(bodyLevel) == IF bodyLevel = NoLevel THEN "little" ELSE bodyLevel

\* req.body.compressionLevel || "middle"
compressionLevel(bodyLevel) == IF bodyLevel = NoLevel THEN "middle" ELSE bodyLevel

(***************************************************************************)
(* The Ghostscript command.                                                *)
(***************************************************************************)
\* the fixed flags of lines 57-60 and 597-600
FixedFlags ==
  <<"gs", "-sDEVICE=pdfwrite", "-dCompatibilityLevel=1.4", "-dNOPAUSE", "-dQUIET",
    "-dBATCH", "-dDetectDuplicateImages=true">>

\* the command with the resolution of the monochrome images left at 72
gsCommand_FixedMono(settings, outputPath, inputPath) ==
  [flags |-> FixedFlags,
   PDFSETTINGS |-> settings.level,
   ColorImageResolution |-> settings.imageResolution,
   GrayImageResolution |-> settings.imageResolution,
   MonoImageResolution |-> <<"7", "2">>,
   tail |-> <<"-sOutputFile=", DQ>> \o outputPath \o <<DQ, SP, DQ>> \o inputPath \o <<DQ>>]

\* the interpolated part of gsCommand; tail is the text
\* -sOutputFile="${outputPath}" "${inputPath}" as the shell reads it
gsCommand(settings, outputPath, inputPath) ==
  [flags |-> FixedFlags,
   PDFSETTINGS |-> settings.level,
   ColorImageResolution |-> settings.imageResolution,
   GrayImageResolution |-> settings.imageResolution,
   MonoImageResolution |-> settings.imageResolution,
   tail |-> <<"-sOutputFile=", DQ>> \o outputPath \o <<DQ, SP, DQ>> \o inputPath \o <<DQ>>]

NoCommand ==
  [flags |-> <<>>, PDFSETTINGS |-> "", ColorImageResolution |-> <<>>, GrayImageResolution |-> <<>>,
   MonoImageResolution |-> <<>>, tail |-> <<>>]

\* How /bin/sh, which child_process.exec runs the command with, splits a text
\* into words.  A double quote opens or closes a quoted part; blanks outside
\* quotes separate words; "$", a backquote and a backslash start an expansion
\* or an escape inside and outside double quotes; ";" outside quotes ends the
\* command.  The result has the words and whether the text was plain, that is
\* free of expansions, escapes, control operators and unclosed quotes.
RECURSIVE ShellSplit(_, _, _, _, _)
ShellSplit(text, inQuote, cur, words, plain) ==
  IF text = <<>>
  THEN [words |-> IF cur = <<>> THEN words ELSE Append(words, cur),
        plain |-> plain /\ ~inQuote]
  ELSE LET c == Head(text)
           rest == Tail(text)
       IN IF c = DQ
          THEN ShellSplit(rest, ~inQuote, cur \o <<DQ>>, words, plain)
          ELSE IF c \in {DOLLAR, BACKTICK, BACKSLASH}
          THEN ShellSplit(rest, inQuote, cur \o <<c>>, words, FALSE)
          ELSE IF ~inQuote /\ c = SEMI
          THEN ShellSplit(rest, inQuote, <<>>,
                          IF cur = <<>> THEN words ELSE Append(words, cur), FALSE)
          ELSE IF ~inQuote /\ IsWhitespace(c)
          THEN ShellSplit(rest, inQuote, <<>>,
                          IF cur = <<>> THEN words ELSE Append(words, cur), plain)
          ELSE ShellSplit(rest, inQuote, cur \o <<c>>, words, plain)

ShellWords(text) == ShellSplit(text, FALSE, <<>>, <<>>, TRUE)

(***************************************************************************)
(* Inputs of a request.                                                    *)
(***************************************************************************)

\* req.body.compressionLevel of the requests the model sends
BodyLevels ==
  {NoLevel, "little", "middle", "high", "low", "medium", "bogus", "constructor"}

\* Request 1 is the request under study: it draws its inputs from all names and
\* levels, its tool may write diagnostics and its client may go away.  The
\* request that runs beside it draws from one name and from one accepted and
\* one rejected level, its tool writes no diagnostics and its client stays.
NamesOf(r) == IF r = 1 THEN OriginalNames ELSE {PlainName}
LevelsOf(r) == IF r = 1 THEN BodyLevels ELSE {"middle", "bogus"}

\* the pairs of a name and a level a request may send: the name and the level
\* are handled independently of each other, so the hostile name is sent with
\* one level only
InputsOf(r) ==
  {in \in [name : NamesOf(r), level : LevelsOf(r)] :
     in.name = PlainName \/ in.level = "middle"}

\* stderr of the subprocess: empty or some diagnostic text
StderrTexts == {"", "GS diagnostic"}

StderrOf(r) == IF r = 1 THEN StderrTexts ELSE {""}

\* the requests whose client may close the connection
ClientsThatLeave == {1}

\* error.message of the error child_process.exec passes to its callback
ErrorMessage == "Command failed"

NoPath == <<>>

(***************************************************************************)
(* State.                                                                  *)
(***************************************************************************)
VARIABLES
  handlerDef,      \* 1: the server of lines 1-512, 2: the server of lines 514-874
  listening,       \* the app.listen callback has run
  now,             \* Date.now()
  dirs,            \* the directories that exist
  files,           \* the staged files: [path, by], by the request whose data it holds
  pendingUnlinks,  \* fs.unlink calls issued and not yet performed
  req,             \* per request: position in the pipeline, inputs, response
  probe            \* a file name and the base name computed from it (SpecNames)

vars == <<handlerDef, listening, now, dirs, files, pendingUnlinks, req, probe>>

UPLOAD_DIR == "uploads"
COMPRESSED_DIR == "compressed_pdfs"

\* a request that has not arrived
NewRequest ==
  [pc |-> "new",
   hasFile |-> FALSE,
   originalname |-> <<>>,
   bodyLevel |-> NoLevel,
   inputPath |-> NoPath,
   outputPath |-> NoPath,
   command |-> NoCommand,
   invocations |-> 0,
   error |-> "none",          \* error of the exec callback: none, exit, launch
   stderr |-> "",
   connected |-> TRUE,        \* the client's connection is open
   threw |-> FALSE,           \* a create-if-absent step of the request threw
   download |-> "none",       \* none, enoent, aborted_early, aborted, sent
   status |-> 0,              \* status of the response sent, 0: none sent
   sends |-> 0,               \* responses the handler and its callbacks started
   message |-> <<>>,          \* message of a JSON response: <<text, detail>>
   unlinkIn |-> 0,            \* fs.unlink calls issued for the input path
   unlinkOut |-> 0]           \* fs.unlink calls issued for the output path

\* no file name is under study
NoProbe == [pc |-> "off", name |-> <<>>, base |-> <<>>, again |-> <<>>]

Init ==
  /\ probe = NoProbe
  /\ handlerDef \in {1, 2}
  /\ listening = FALSE
  /\ now = 0
  /\ dirs \in SUBSET {UPLOAD_DIR, COMPRESSED_DIR}
  /\ files = {}
  /\ pendingUnlinks = {}
  /\ req = [r \in Reqs |-> NewRequest]

\* fs.writeFile / the tool's output: path now holds data of request r
WriteFile(fs, path, r) == {f \in fs : f.path # path} \cup {[path |-> path, by |-> r]}

\* the effect of a performed unlink: the path is gone (ENOENT if it was not there)
RemoveFile(fs, path) == {f \in fs : f.path # path}

\* fs.existsSync(path) for a file
Exists(fs, path) == \E f \in fs : f.path = path

\* fs.existsSync(dir)
existsSync(ds, dir) == dir \in ds

\* fs.mkdirSync(dir, { recursive: true }) of the second definition accepts a
\* directory that exists; fs.mkdirSync(dir) of the first throws EEXIST
Recursive(def) == def = 2

\* a create step that calls mkdirSync without looking first
MkdirCalled_Unguarded(ds, dir) == TRUE

\* if (!fs.existsSync(dir)) ... : mkdirSync is called only for a directory that
\* is not there; both calls are synchronous, no other callback runs between them
MkdirCalled(ds, dir) == ~existsSync(ds, dir)

\* the create-if-absent step throws
EnsureDirThrows(def, ds, dir) ==
  MkdirCalled(ds, dir) /\ existsSync(ds, dir) /\ ~Recursive(def)

\* if (!fs.existsSync(dir)) fs.mkdirSync(dir)
EnsureDir(ds, dir) == ds \cup {dir}

\* fs.unlink(path, cb) issued by request r for its input or its output
Unlink(path, r, which) == [path |-> path, by |-> r, which |-> which]

(***************************************************************************)
(* Operations.                                                             *)
(***************************************************************************)
\* the event loop held by execSync until the subprocess has exited
EventLoopHeld_ExecSync == \E r \in Reqs : req[r].pc \in {"running", "wrote"}

\* exec(gsCommand, callback), lines 67 and 607, returns at once and the handler
\* takes no lock: no running subprocess keeps the server's callbacks from running
EventLoopHeld == FALSE

\* one of the two create-if-absent steps of the app.listen callback throws
ListenThrows ==
  \/ EnsureDirThrows(handlerDef, dirs, UPLOAD_DIR)
  \/ EnsureDirThrows(handlerDef, EnsureDir(dirs, UPLOAD_DIR), COMPRESSED_DIR)

\* the app.listen callback, lines 505-512 and 870-874; an exception thrown in
\* it is uncaught and ends the process before any request is served
Listen ==
  /\ ~listening
  /\ IF ListenThrows
     THEN UNCHANGED <<listening, dirs>>
     ELSE /\ listening' = TRUE
          /\ dirs' = EnsureDir(EnsureDir(dirs, UPLOAD_DIR), COMPRESSED_DIR)
  /\ UNCHANGED <<probe, handlerDef, now, files, pendingUnlinks, req>>

\* the clock advances (as long as a request is left that will read it)
Tick ==
  /\ now < MaxTime
  /\ \E r \in Reqs : req[r].pc \in {"new", "uploaded"}
  /\ now' = now + 1
  /\ UNCHANGED <<probe, handlerDef, listening, dirs, files, pendingUnlinks, req>>

\* upload.single("pdfFile") for a request without a file part
UploadNoFile(r) ==
  /\ ~EventLoopHeld
  /\ listening
  /\ req[r].pc = "new"
  /\ req' = [req EXCEPT ![r].pc = "uploaded"]
  /\ UNCHANGED <<probe, handlerDef, listening, now, dirs, files, pendingUnlinks>>

\* upload.single("pdfFile") for a request with a file part: destination,
\* filename, and the file written to the inbound staging directory
UploadFile(r, name, level) ==
  /\ ~EventLoopHeld
  /\ listening
  /\ req[r].pc = "new"
  /\ LET path == UploadPath(handlerDef, now, name) IN
     IF EnsureDirThrows(handlerDef, dirs, UPLOAD_DIR)
     THEN \* the destination callback throws: nothing is stored, Express answers 500
          /\ req' = [req EXCEPT ![r].pc = "done", ![r].status = 500, ![r].sends = @ + 1,
                                ![r].threw = TRUE]
          /\ UNCHANGED <<dirs, files>>
     ELSE /\ dirs' = EnsureDir(dirs, UPLOAD_DIR)
          /\ files' = WriteFile(files, path, r)
          /\ req' = [req EXCEPT ![r].pc = "uploaded",
                                ![r].hasFile = TRUE,
                                ![r].originalname = name,
                                ![r].bodyLevel = level,
                                ![r].inputPath = path]
  /\ UNCHANGED <<probe, handlerDef, listening, now, pendingUnlinks>>

\* how many of the issued unlinks are for the input ("in") or output ("out") path
Issued(unlinks, which) == Cardinality({u \in unlinks : u.which = which})

\* the handler without its check for a missing file
FileMissing_Unchecked(r) == FALSE

\* !req.file, lines 30 and 546
FileMissing(r) == ~req[r].hasFile

\* the rejected-level branch without its unlink
InvalidLevelUnlinks_None(r) == {}

\* the rejected-level branch unlinking the path it has not computed yet
InvalidLevelUnlinks_WrongPath(r) == {Unlink(req[r].outputPath, r, "in")}

\* the fs.unlink the handler issues when the level is rejected, lines 38 and 554
InvalidLevelUnlinks(r) == {Unlink(req[r].inputPath, r, "in")}

\* the synchronous part of the route handler, lines 29-67 and 545-607
Handle(r) ==
  /\ ~EventLoopHeld
  /\ req[r].pc = "uploaded"
  /\ LET level == compressionLevel(req[r].bodyLevel)
         settings == Lookup(level)
         inputPath == req[r].inputPath
         outputPath == OutputPath(handlerDef, now, req[r].originalname)
         unlinks == InvalidLevelUnlinks(r)
     IN
     IF FileMissing(r)
     THEN /\ req' = [req EXCEPT ![r].pc = "done",
                                ![r].status = 400,
                                ![r].sends = @ + 1,
                                ![r].message = <<"No PDF file uploaded.", "">>]
          /\ UNCHANGED <<dirs, pendingUnlinks>>
     ELSE IF ~Truthy(settings)
     THEN /\ pendingUnlinks' = pendingUnlinks \cup unlinks
          /\ req' = [req EXCEPT ![r].pc = "done",
                                ![r].status = 400,
                                ![r].sends = @ + 1,
                                ![r].message = <<"Invalid compression level.", "">>,
                                ![r].unlinkIn = @ + Issued(unlinks, "in")]
          /\ UNCHANGED dirs
     ELSE IF EnsureDirThrows(handlerDef, dirs, COMPRESSED_DIR)
     THEN \* the handler throws before exec: Express answers 500
          /\ req' = [req EXCEPT ![r].pc = "done", ![r].status = 500, ![r].sends = @ + 1,
                                ![r].threw = TRUE]
          /\ UNCHANGED <<dirs, pendingUnlinks>>
     ELSE /\ dirs' = EnsureDir(dirs, COMPRESSED_DIR)
          /\ req' = [req EXCEPT ![r].pc = "running",
                                ![r].outputPath = outputPath,
                                ![r].command = gsCommand(settings, outputPath, inputPath),
                                ![r].invocations = @ + 1]
          /\ UNCHANGED pendingUnlinks
  /\ UNCHANGED <<probe, handlerDef, listening, now, files>>

\* the client closes its connection while its request is being served; nothing
\* in either definition listens for it, so only the connection's state changes
Disconnect(r) ==
  /\ r \in ClientsThatLeave
  /\ req[r].pc \in {"running", "wrote", "download", "streaming"}
  /\ req[r].connected
  /\ req' = [req EXCEPT ![r].connected = FALSE]
  /\ UNCHANGED <<probe, handlerDef, listening, now, dirs, files, pendingUnlinks>>

\* the running tool writes its (complete or partial) output file
GsWrite(r) ==
  /\ req[r].pc = "running"
  /\ files' = WriteFile(files, req[r].outputPath, r)
  /\ req' = [req EXCEPT ![r].pc = "wrote"]
  /\ UNCHANGED <<probe, handlerDef, listening, now, dirs, pendingUnlinks>>

\* an exec callback that cleans up only while the client is still connected
ExecUnlinks_SkipWhenGone(def, r, failed) ==
  IF ~req[r].connected THEN {}
  ELSE {Unlink(req[r].inputPath, r, "in")}
       \cup (IF failed /\ def = 2 THEN {Unlink(req[r].outputPath, r, "out")} ELSE {})

\* the fs.unlink calls the exec callback issues: always the input (lines 68 and
\* 608); the output too in the error branch of the second definition (line 615)
ExecUnlinks(def, r, failed) ==
  {Unlink(req[r].inputPath, r, "in")}
  \cup (IF failed /\ def = 2 THEN {Unlink(req[r].outputPath, r, "out")} ELSE {})

\* stderr || error.message
ErrorDetail(stderr) == IF stderr = "" THEN ErrorMessage ELSE stderr

\* an exec callback that takes any diagnostic text for a failure
ErrorBranch_OnAnyStderr(error, stderr) == error # "none" \/ stderr # ""

\* if (error), lines 72 and 612: the error branch is taken on the error object
\* alone; stderr of a run that exited with status zero is only logged (lines
\* 79 and 619-621)
ErrorBranch(error, stderr) == error # "none"

\* the exec callback, lines 67-82 and 607-625: error is "none" for exit status
\* zero, "exit" for a non-zero exit status, "launch" when the tool did not start
ExecCallback(r, error, stderr) ==
  /\ \/ req[r].pc = "running"
     \/ req[r].pc = "wrote" /\ error # "launch"
  /\ LET unlinks == ExecUnlinks(handlerDef, r, ErrorBranch(error, stderr)) IN
     /\ pendingUnlinks' = pendingUnlinks \cup unlinks
     /\ IF ErrorBranch(error, stderr)
        THEN req' = [req EXCEPT ![r].pc = "done",
                                ![r].error = error,
                                ![r].stderr = stderr,
                                ![r].status = 500,
                                ![r].sends = @ + 1,
                                ![r].message = <<"Error compressing PDF", ErrorDetail(stderr)>>,
                                ![r].unlinkIn = @ + Issued(unlinks, "in"),
                                ![r].unlinkOut = @ + Issued(unlinks, "out")]
        ELSE req' = [req EXCEPT ![r].pc = "download",
                                ![r].stderr = stderr,
                                ![r].unlinkIn = @ + Issued(unlinks, "in"),
                                ![r].unlinkOut = @ + Issued(unlinks, "out")]
  /\ UNCHANGED <<probe, handlerDef, listening, now, dirs, files>>

\* a download callback that answers 500 whether or not the headers were sent
CallbackSends_IgnoringHeaders(def, err, headersSent) == def = 1 /\ err

\* the download callback sends a response of its own: only the first
\* definition, on an error, if (!res.headersSent) (lines 83-89)
CallbackSends(def, err, headersSent) == def = 1 /\ err /\ ~headersSent

\* a download callback that only logs in both definitions
EarlyFailureStatus_LoggedOnly(def) == 0

\* the response the download callback sends when the download failed before
\* any header was sent: the first definition answers 500 (lines 85-89), the
\* second sends nothing
EarlyFailureStatus(def) == IF def = 1 THEN 500 ELSE 0

EarlyFailureMessage(def) ==
  IF def = 1 THEN <<"Error sending the compressed file.", "">> ELSE <<>>

\* the download callback returning early on an error, before its unlink
DownloadUnlinks_OnlyOnSuccess(r, failed) ==
  IF failed THEN {} ELSE {Unlink(req[r].outputPath, r, "out")}

\* the fs.unlink the download callback issues, with or without an error
\* (lines 91 and 629)
DownloadUnlinks(r, failed) == {Unlink(req[r].outputPath, r, "out")}

\* res.download starts: the file is looked up and the headers are sent; when
\* the file is missing or the client is already gone the download callback runs
\* with an error at once (lines 82-94 and 625-632)
DownloadStart(r, clientGone) ==
  /\ ~EventLoopHeld
  /\ req[r].pc = "download"
  /\ clientGone = ~req[r].connected
  /\ IF Exists(files, req[r].outputPath) /\ ~clientGone
     THEN /\ req' = [req EXCEPT ![r].pc = "streaming", ![r].status = 200,
                                ![r].sends = @ + 1]
          /\ UNCHANGED pendingUnlinks
     ELSE LET unlinks == DownloadUnlinks(r, TRUE) IN
          /\ req' = [req EXCEPT ![r].pc = "done",
                                ![r].download = IF clientGone THEN "aborted_early"
                                                ELSE "enoent",
                                ![r].status = EarlyFailureStatus(handlerDef),
                                ![r].sends = @ + (IF CallbackSends(handlerDef, TRUE, FALSE)
                                                  THEN 1 ELSE 0),
                                ![r].message = EarlyFailureMessage(handlerDef),
                                ![r].unlinkOut = @ + Issued(unlinks, "out")]
          /\ pendingUnlinks' = pendingUnlinks \cup unlinks
  /\ UNCHANGED <<probe, handlerDef, listening, now, dirs, files>>

\* the download callback after the headers were sent: the transfer finished or
\* was aborted by the client; res.headersSent is true, so nothing more is sent
DownloadEnd(r, aborted) ==
  /\ ~EventLoopHeld
  /\ req[r].pc = "streaming"
  /\ aborted = ~req[r].connected
  /\ LET unlinks == DownloadUnlinks(r, aborted) IN
     /\ req' = [req EXCEPT ![r].pc = "done",
                           ![r].download = IF aborted THEN "aborted" ELSE "sent",
                           ![r].sends = @ + (IF CallbackSends(handlerDef, aborted, TRUE)
                                             THEN 1 ELSE 0),
                           ![r].unlinkOut = @ + Issued(unlinks, "out")]
     /\ pendingUnlinks' = pendingUnlinks \cup unlinks
  /\ UNCHANGED <<probe, handlerDef, listening, now, dirs, files>>

\* an unlink callback that answers 500 when the deletion failed
UnlinkCallback_Surfaces(rq, err) ==
  IF err THEN [rq EXCEPT !.status = 500, !.message = <<"Error deleting file", "">>]
  ELSE rq

\* the callbacks given to fs.unlink (lines 38-41, 68-70, 91-93, 554-556,
\* 608-610, 615, 629-631): an error is logged or ignored, the request is left
\* as it is and no further unlink is issued
UnlinkCallback(rq, err) == rq

\* a pending fs.unlink is performed and its callback runs; the deletion fails
\* (ENOENT) when the path is not there
UnlinkDone(u) ==
  /\ ~EventLoopHeld
  /\ u \in pendingUnlinks
  /\ files' = RemoveFile(files, u.path)
  /\ pendingUnlinks' = pendingUnlinks \ {u}
  /\ req' = [req EXCEPT ![u.by] = UnlinkCallback(@, ~Exists(files, u.path))]
  /\ UNCHANGED <<probe, handlerDef, listening, now, dirs>>

Next ==
  \/ Listen
  \/ Tick
  \/ \E r \in Reqs : UploadNoFile(r)
  \/ \E r \in Reqs : \E in \in InputsOf(r) : UploadFile(r, in.name, in.level)
  \/ \E r \in Reqs : Handle(r)
  \/ \E r \in Reqs : Disconnect(r)
  \/ \E r \in Reqs : GsWrite(r)
  \/ \E r \in Reqs : \E error \in {"none", "exit", "launch"}, stderr \in StderrOf(r) :
       ExecCallback(r, error, stderr)
  \/ \E r \in Reqs, clientGone \in BOOLEAN : DownloadStart(r, clientGone)
  \/ \E r \in Reqs, aborted \in BOOLEAN : DownloadEnd(r, aborted)
  \/ \E u \in pendingUnlinks : UnlinkDone(u)

Spec == Init /\ [][Next]_vars

TypeOK ==
  /\ handlerDef \in {1, 2}
  /\ now \in 0..MaxTime
  /\ \A r \in Reqs : req[r].status \in {0, 200, 400, 500}

(***************************************************************************)
(* The file naming on its own: every original name up to a length, and the *)
(* output base name either definition computes from it.                    *)
(***************************************************************************)
MaxNameLen == 4

\* letters of ".pdf" in both cases, a digit, the characters the sanitizers
\* keep or treat specially, a path separator and a non-ASCII character
NameAlphabet == {"p", "d", "f", "P", "7", DOT, USCORE, HYPHEN, SP, SLASH, NONASCII}

NamesUpTo(n) == UNION {[1..k -> NameAlphabet] : k \in 0..n}

NamesInit ==
  /\ probe \in {[pc |-> "name", name |-> n, base |-> <<>>, again |-> <<>>] :
                  n \in NamesUpTo(MaxNameLen)}
  /\ handlerDef \in {1, 2}
  /\ listening = FALSE
  /\ now = 0
  /\ dirs = {}
  /\ files = {}
  /\ pendingUnlinks = {}
  /\ req = [r \in Reqs |-> NewRequest]

\* lines 48-50 and 561-581: the base name of the output file is computed from
\* req.file.originalname
ComputeBase ==
  /\ probe.pc = "name"
  /\ probe' = [probe EXCEPT !.pc = "base",
                            !.base = outputBaseName(handlerDef, probe.name)]
  /\ UNCHANGED <<handlerDef, listening, now, dirs, files, pendingUnlinks, req>>

\* the same computation for a file whose original name is the base name just
\* computed
ComputeAgain ==
  /\ probe.pc = "base"
  /\ probe' = [probe EXCEPT !.pc = "again",
                            !.again = outputBaseName(handlerDef, probe.base)]
  /\ UNCHANGED <<handlerDef, listening, now, dirs, files, pendingUnlinks, req>>

NamesNext == ComputeBase \/ ComputeAgain

SpecNames == NamesInit /\ [][NamesNext]_vars

(***************************************************************************)
(* Vocabulary of the properties.                                           *)
(***************************************************************************)
\* the handler has run for the request
Handled(r) == req[r].pc \notin {"new", "uploaded"}

\* the handler and every callback of the request have run
Done(r) == req[r].pc = "done"

\* no fs.unlink issued for the request is still pending
Quiet(r) == \A u \in pendingUnlinks : u.by # r

\* the staged files that hold data of the request
FilesOf(r) == {f \in files : f.by = r}

InInbound(f) == Head(f.path) = "uploads/"
InOutbound(f) == Head(f.path) = "compressed_pdfs/"

\* the level the request selects is one of the keys of the table
Recognized(r) ==
  req[r].hasFile /\ compressionLevel(req[r].bodyLevel) \in DOMAIN compressionSettings

\* the profile a request with a recognized level selects
SelectedProfile(r) == compressionSettings[compressionLevel(req[r].bodyLevel)]

\* the subprocess of the request was started and exited with status zero
ExitedZero(r) ==
  /\ req[r].invocations >= 1
  /\ req[r].pc \in {"download", "streaming", "done"}
  /\ req[r].error = "none"

\* the decimal number a sequence of digits denotes
DigitValue(c) ==
  CASE c = "0" -> 0 [] c = "1" -> 1 [] c = "2" -> 2 [] c = "3" -> 3 [] c = "4" -> 4
    [] c = "5" -> 5 [] c = "6" -> 6 [] c = "7" -> 7 [] c = "8" -> 8 [] c = "9" -> 9

RECURSIVE ParseInt(_)
ParseInt(s) ==
  IF s = <<>> THEN 0 ELSE 10 * ParseInt(SubSeq(s, 1, Len(s) - 1)) + DigitValue(s[Len(s)])

(***************************************************************************)
(* C1.  In both definitions, for every request with a file and a           *)
(* recognized level whose subprocess exited with status zero: the tool was *)
(* invoked exactly once, with the PDFSETTINGS directive and the three      *)
(* image resolutions of the selected profile; and once the download        *)
(* callback has run and no unlink of the request is pending, no staged     *)
(* file holds data of the request.                                         *)
(***************************************************************************)
C1_SuccessLeavesNoFiles ==
  \A r \in Reqs :
    (Recognized(r) /\ ExitedZero(r)) =>
      /\ req[r].invocations = 1
      /\ req[r].command.PDFSETTINGS = SelectedProfile(r).level
      /\ req[r].command.ColorImageResolution = SelectedProfile(r).imageResolution
      /\ req[r].command.GrayImageResolution = SelectedProfile(r).imageResolution
      /\ req[r].command.MonoImageResolution = SelectedProfile(r).imageResolution
      /\ (Done(r) /\ Quiet(r)) => FilesOf(r) = {}

\* a request was answered 200 with the whole file, its two unlinks were
\* performed, and nothing of it is left
C1_Witness ==
  \E r \in Reqs :
    /\ Recognized(r) /\ ExitedZero(r) /\ Done(r) /\ Quiet(r)
    /\ req[r].status = 200 /\ req[r].download = "sent"
    /\ req[r].bodyLevel = "high"
    /\ req[r].unlinkIn = 1 /\ req[r].unlinkOut = 1

(***************************************************************************)
(* C2.  In both definitions, for every request whose subprocess exited     *)
(* non-zero: the response is 500, its message carries the captured stderr  *)
(* text, and once no unlink of the request is pending no file of the       *)
(* request is left in the outbound staging directory, also when the tool   *)
(* had written a partial output file.                                      *)
(***************************************************************************)
C2_FailureLeavesNoOutput ==
  \A r \in Reqs :
    (Done(r) /\ req[r].error = "exit") =>
      /\ req[r].status = 500
      /\ req[r].stderr # "" => req[r].message[2] = req[r].stderr
      /\ Quiet(r) => \A f \in FilesOf(r) : ~InOutbound(f)

(***************************************************************************)
(* C3.  For every request with a file whose level fails the lookup: the    *)
(* response is 400, the tool is not invoked, no output path is made, the   *)
(* unlink of the staged upload is issued, and once it is performed no      *)
(* staged file holds data of the request.                                  *)
(***************************************************************************)
C3_InvalidLevelCleansUp ==
  \A r \in Reqs :
    (Handled(r) /\ req[r].hasFile
       /\ ~Truthy(Lookup(compressionLevel(req[r].bodyLevel)))) =>
      /\ Done(r)
      /\ req[r].status = 400
      /\ req[r].invocations = 0
      /\ req[r].command = NoCommand
      /\ req[r].outputPath = NoPath
      /\ req[r].unlinkIn = 1
      /\ Quiet(r) => FilesOf(r) = {}

\* a request with level "bogus" was answered 400 and its upload is gone, while
\* another request is being served
C3_Witness ==
  \E r \in Reqs :
    /\ req[r].hasFile /\ req[r].bodyLevel = "bogus"
    /\ Done(r) /\ Quiet(r) /\ req[r].status = 400
    /\ FilesOf(r) = {}
    /\ \E o \in Reqs \ {r} : req[o].pc = "wrote"

(***************************************************************************)
(* C4.  For every request without a file: the response is 400, the tool is *)
(* not invoked, and no file is created in either staging directory.        *)
(***************************************************************************)
C4_NoFileRejected ==
  \A r \in Reqs :
    (req[r].pc # "new" /\ ~req[r].hasFile) =>
      /\ FilesOf(r) = {}
      /\ req[r].invocations = 0
      /\ req[r].inputPath = NoPath /\ req[r].outputPath = NoPath
      /\ req[r].unlinkIn = 0 /\ req[r].unlinkOut = 0
      /\ Handled(r) => (Done(r) /\ req[r].status = 400)

\* a request without a file was answered 400
C4_Witness ==
  \E r \in Reqs :
    /\ ~req[r].hasFile /\ Done(r) /\ req[r].status = 400
    /\ req[r].message = <<"No PDF file uploaded.", "">>

(***************************************************************************)
(* C5.  For any two accepted requests in flight at the same time: their    *)
(* input paths differ and their output paths differ; and a request's input *)
(* is there while its subprocess runs and its output is there while it is  *)
(* streamed (no other request's unlink has removed it).                    *)
(***************************************************************************)
InFlight(r) == req[r].pc \in {"running", "wrote", "download", "streaming"}

C5_RequestsDoNotInterfere ==
  /\ \A r1, r2 \in Reqs :
       (r1 # r2 /\ InFlight(r1) /\ InFlight(r2)) =>
         /\ req[r1].inputPath # req[r2].inputPath
         /\ req[r1].outputPath # req[r2].outputPath
  /\ \A r \in Reqs :
       /\ req[r].pc \in {"running", "wrote"} => Exists(files, req[r].inputPath)
       /\ req[r].pc = "streaming" => Exists(files, req[r].outputPath)

(***************************************************************************)
(* C6.  On the success path (exit status zero) the cleanup does not depend *)
(* on how the download ends: whether it completes, fails before a byte is  *)
(* sent or is aborted by the client, exactly one unlink of the input and   *)
(* one of the output are issued, and once they are performed no staged     *)
(* file holds data of the request.                                         *)
(***************************************************************************)
C6_CleanupUnconditional ==
  \A r \in Reqs :
    (ExitedZero(r) /\ Done(r)) =>
      /\ req[r].download \in {"sent", "enoent", "aborted_early", "aborted"}
      /\ req[r].unlinkIn = 1
      /\ req[r].unlinkOut = 1
      /\ Quiet(r) => FilesOf(r) = {}

\* a download was aborted by the client in mid-transfer, and both files of
\* the request are gone
C6_Witness ==
  \E r \in Reqs :
    /\ ExitedZero(r) /\ Done(r) /\ Quiet(r)
    /\ req[r].download = "aborted"
    /\ req[r].unlinkIn = 1 /\ req[r].unlinkOut = 1
    /\ FilesOf(r) = {}

(***************************************************************************)
(* C7.  In both definitions every request gets a response: once the        *)
(* handler and the callbacks of a request have run, a response has been    *)
(* sent, also when the tool exited with status zero and left no output     *)
(* file.  (A request whose client went away before the download started is *)
(* left out: nobody is there to receive a response.)                       *)
(***************************************************************************)
C7_EveryRequestAnswered ==
  \A r \in Reqs :
    (Done(r) /\ req[r].download # "aborted_early") => req[r].status # 0

(***************************************************************************)
(* C8.  As claimed: the levels "low", "medium" and "high" select three     *)
(* distinct profiles, so that a request with a file and one of these       *)
(* levels is accepted and reaches the invocation of the tool.              *)
(***************************************************************************)
C8_LowMediumHighAccepted ==
  \A r \in Reqs :
    (Handled(r) /\ req[r].hasFile /\ req[r].bodyLevel \in {"low", "medium", "high"}) =>
      /\ req[r].invocations = 1
      /\ req[r].status # 400

(***************************************************************************)
(* C8, amended.  The keys of the table are "little", "middle" and "high":  *)
(* a request with a file and one of these levels is accepted and reaches   *)
(* the invocation with the profile of its level; the three profiles have   *)
(* distinct directives and the resolutions 72 < 150 < 300; a request with  *)
(* a file and the level "bogus", "low" or "medium" is answered 400.        *)
(***************************************************************************)
C8_LittleMiddleHighAccepted ==
  \A r \in Reqs :
    /\ (Handled(r) /\ req[r].hasFile /\ req[r].bodyLevel = "little") =>
         /\ req[r].invocations = 1
         /\ req[r].command.PDFSETTINGS = "/screen"
         /\ ParseInt(req[r].command.ColorImageResolution) = 72
    /\ (Handled(r) /\ req[r].hasFile /\ req[r].bodyLevel = "middle") =>
         /\ req[r].invocations = 1
         /\ req[r].command.PDFSETTINGS = "/ebook"
         /\ ParseInt(req[r].command.ColorImageResolution) = 150
    /\ (Handled(r) /\ req[r].hasFile /\ req[r].bodyLevel = "high") =>
         /\ req[r].invocations = 1
         /\ req[r].command.PDFSETTINGS = "/printer"
         /\ ParseInt(req[r].command.ColorImageResolution) = 300
    /\ (Handled(r) /\ req[r].hasFile /\ req[r].bodyLevel \in {"bogus", "low", "medium"}) =>
         /\ req[r].invocations = 0
         /\ req[r].status = 400

\* the tool runs for a request of level "little" and has run for one of level
\* "middle"
C8_Witness ==
  \E r1, r2 \in Reqs :
    /\ req[r1].bodyLevel = "little" /\ req[r1].pc = "running"
    /\ ParseInt(req[r1].command.MonoImageResolution) = 72
    /\ req[r2].bodyLevel = "middle" /\ req[r2].pc = "streaming"
    /\ ParseInt(req[r2].command.MonoImageResolution) = 150

(***************************************************************************)
(* C9.  For every level string that is sent and is not a key of the table  *)
(* (names of inherited members of the table object included): the request  *)
(* is answered 400 and no command is built or run.                         *)
(***************************************************************************)
C9_UnknownLevelRejected ==
  \A r \in Reqs :
    (Handled(r) /\ req[r].hasFile /\ req[r].bodyLevel # NoLevel
       /\ req[r].bodyLevel \notin DOMAIN compressionSettings) =>
      /\ req[r].status = 400
      /\ req[r].invocations = 0
      /\ req[r].command = NoCommand

(***************************************************************************)
(* C10.  In both definitions, for every original file name: the shell      *)
(* reads the interpolated part of the command as exactly two words, the    *)
(* output-file argument and the input-file argument, with no expansion,    *)
(* escape, command separator or unclosed quote.                            *)
(***************************************************************************)
C10_CommandNotAltered ==
  \A r \in Reqs :
    req[r].invocations >= 1 =>
      LET parsed == ShellWords(req[r].command.tail) IN
      /\ req[r].command.flags = FixedFlags
      /\ parsed.plain
      /\ Len(parsed.words) = 2
      /\ parsed.words[1] = <<"-sOutputFile=", DQ>> \o req[r].outputPath \o <<DQ>>
      /\ parsed.words[2] = <<DQ>> \o req[r].inputPath \o <<DQ>>

(***************************************************************************)
(* C11: for every original filename the output base name computed by the   *)
(* filename-generation logic is non-empty and contains only characters     *)
(* from [A-Za-z0-9_-].  The first definition keeps dots and can return the *)
(* empty string.                                                           *)
(***************************************************************************)
C11_BaseNameSafe ==
  probe.pc = "base" =>
    /\ probe.base # <<>>
    /\ \A i \in 1..Len(probe.base) :
         IsAlnum(probe.base[i]) \/ probe.base[i] \in {USCORE, HYPHEN}

(***************************************************************************)
(* C12 as stated: when the level fails profile lookup, the 400 response is *)
(* observable only when the staged uploaded file no longer exists in the   *)
(* inbound staging directory.                                              *)
(***************************************************************************)
C12_DeletedBeforeResponse ==
  \A r \in Reqs :
    (req[r].hasFile /\ req[r].status = 400) => \A f \in FilesOf(r) : ~InInbound(f)

(***************************************************************************)
(* C12 amended: when the level fails profile lookup, the 400 response is   *)
(* sent only after the deletion of the staged uploaded file has been       *)
(* issued (exactly one fs.unlink of the request's input path); while the   *)
(* response is observable the file either no longer exists or its deletion *)
(* is pending.                                                             *)
(***************************************************************************)
C12_DeletionIssuedBeforeResponse ==
  \A r \in Reqs :
    (req[r].hasFile /\ req[r].status = 400) =>
      /\ req[r].unlinkIn = 1
      /\ (\E f \in FilesOf(r) : InInbound(f)) =>
           Unlink(req[r].inputPath, r, "in") \in pendingUnlinks

\* the 400 has been sent while the staged file is still there, its deletion
\* issued and not yet performed
C12_Witness ==
  \E r \in Reqs :
    /\ req[r].hasFile /\ req[r].status = 400 /\ req[r].bodyLevel = "bogus"
    /\ [path |-> req[r].inputPath, by |-> r] \in files
    /\ Unlink(req[r].inputPath, r, "in") \in pendingUnlinks

(***************************************************************************)
(* C13: the handler takes an invocation as successful (its exec callback   *)
(* goes on to res.download) and streams a 200 response only when the       *)
(* subprocess exited with status zero and the output file exists at the    *)
(* output path.  Neither exec callback looks at the output path: a zero    *)
(* exit without an output file reaches res.download.                       *)
(***************************************************************************)
C13_SuccessNeedsOutputFile ==
  \A r \in Reqs :
    /\ req[r].pc = "download" =>
         req[r].error = "none" /\ Exists(files, req[r].outputPath)
    /\ req[r].status = 200 => req[r].error = "none"

(***************************************************************************)
(* C14: the external tool is invoked exactly once for each request that    *)
(* has a file and a recognized level (once its handler has run), zero      *)
(* times for each request answered with 400, and never a second time for   *)
(* a request whose invocation failed: such a request is finished with one  *)
(* invocation, and no request ever has more than one.                      *)
(***************************************************************************)
C14_InvokedExactlyOnce ==
  \A r \in Reqs :
    /\ req[r].invocations <= 1
    /\ (Recognized(r) /\ Handled(r)) => req[r].invocations = 1
    /\ req[r].status = 400 => req[r].invocations = 0
    /\ req[r].error # "none" => Done(r) /\ req[r].invocations = 1

\* one request's only invocation failed and the request is finished, the other
\* request was answered 400 without an invocation
C14_Witness ==
  \E r, q \in Reqs :
    /\ Recognized(r) /\ req[r].error = "exit" /\ Done(r) /\ Quiet(r)
    /\ req[r].status = 500 /\ req[r].invocations = 1
    /\ req[q].hasFile /\ req[q].status = 400 /\ req[q].invocations = 0 /\ Quiet(q)

(***************************************************************************)
(* C15: in every reachable state and for every job, at most one output     *)
(* file exists for the job, and if the job's output file exists in the     *)
(* outbound staging directory then the job's subprocess has exited with    *)
(* status zero.  The tool writes to the output path itself while it runs,  *)
(* and the first definition leaves the file of a failed run in place.      *)
(***************************************************************************)
C15_OutputImpliesSuccess ==
  \A r \in Reqs :
    LET outputs == {f \in FilesOf(r) : InOutbound(f)} IN
    /\ Cardinality(outputs) <= 1
    /\ outputs # {} => ExitedZero(r)

(***************************************************************************)
(* C16: when a request carries a file and no level field (or an empty      *)
(* one), the middle profile is used: once the handler has run the tool has *)
(* been invoked with a command built with the ebook directive and          *)
(* resolution 150 for the color, gray and mono image classes.              *)
(***************************************************************************)
C16_DefaultLevelIsMiddle ==
  \A r \in Reqs :
    (req[r].hasFile /\ req[r].bodyLevel = NoLevel /\ Handled(r)) =>
      /\ req[r].invocations = 1
      /\ req[r].command.PDFSETTINGS = "/ebook"
      /\ ParseInt(req[r].command.ColorImageResolution) = 150
      /\ ParseInt(req[r].command.GrayImageResolution) = 150
      /\ ParseInt(req[r].command.MonoImageResolution) = 150

\* a request without a level field has its subprocess running on the ebook
\* command
C16_Witness ==
  \E r \in Reqs :
    /\ req[r].hasFile /\ req[r].bodyLevel = NoLevel /\ req[r].pc = "running"
    /\ req[r].command.PDFSETTINGS = "/ebook"
    /\ req[r].command.ColorImageResolution = <<"1", "5", "0">>

(***************************************************************************)
(* C17: a failing deletion of a temporary file (input or output, on any    *)
(* path) never changes the status or body of the response of the request,  *)
(* never prevents the response from being sent (the request is left where  *)
(* it was, so every step it could take it still can), and is never         *)
(* retried: no new deletion is issued by the failure, and each temporary   *)
(* file has at most one deletion attempt per request.                      *)
(***************************************************************************)
C17_DeletionFailureIgnored ==
  [][/\ \A u \in pendingUnlinks :
          (UnlinkDone(u) /\ ~Exists(files, u.path)) =>
            /\ req' = req
            /\ pendingUnlinks' = pendingUnlinks \ {u}
      /\ \A r \in Reqs : req'[r].unlinkIn <= 1 /\ req'[r].unlinkOut <= 1]_vars

\* second definition: the tool could not be started, so the unlink of the
\* output path issued by the error branch found no file; the 500 of the
\* request is as the exec callback sent it
C17_Witness ==
  \E r \in Reqs :
    /\ handlerDef = 2 /\ req[r].error = "launch" /\ Done(r) /\ Quiet(r)
    /\ req[r].status = 500 /\ req[r].message[1] = "Error compressing PDF"
    /\ req[r].unlinkIn = 1 /\ req[r].unlinkOut = 1
    /\ \A q \in Reqs \ {r} : req[q].pc = "new"

(***************************************************************************)
(* C18: while one request's subprocess is running, every step of any other *)
(* request stays enabled: the other request can be received, validated,    *)
(* invoked, answered and cleaned up before the first request's subprocess  *)
(* exits; the handler holds no process-wide lock across the invocation.    *)
(***************************************************************************)
SubprocessRunning(r) == req[r].pc \in {"running", "wrote"}

C18_RunningBlocksNoOther ==
  \A r \in Reqs : SubprocessRunning(r) =>
    /\ ~EventLoopHeld
    /\ \A q \in Reqs \ {r} :
         /\ (listening /\ req[q].pc = "new") =>
              /\ ENABLED UploadNoFile(q)
              /\ \A in \in InputsOf(q) : ENABLED UploadFile(q, in.name, in.level)
         /\ req[q].pc = "uploaded" => ENABLED Handle(q)
         /\ req[q].pc = "running" =>
              /\ ENABLED GsWrite(q)
              /\ \A error \in {"none", "exit", "launch"} : ENABLED ExecCallback(q, error, "")
         /\ req[q].pc = "wrote" =>
              \A error \in {"none", "exit"} : ENABLED ExecCallback(q, error, "")
         /\ req[q].pc = "download" => ENABLED DownloadStart(q, ~req[q].connected)
         /\ req[q].pc = "streaming" => ENABLED DownloadEnd(q, ~req[q].connected)
         /\ \A u \in pendingUnlinks : u.by = q => ENABLED UnlinkDone(u)

\* the subprocess of one request, started at time 0, is still running, and
\* the other request, received at time 1, has been answered 200 with its
\* whole file and cleaned up
C18_Witness ==
  \E r, q \in Reqs :
    /\ r # q
    /\ SubprocessRunning(r)
    /\ req[r].outputPath = OutputPath(handlerDef, 0, req[r].originalname)
    /\ req[q].inputPath = UploadPath(handlerDef, 1, req[q].originalname)
    /\ Done(q) /\ Quiet(q) /\ req[q].status = 200 /\ req[q].download = "sent"
    /\ req[q].invocations = 1 /\ FilesOf(q) = {}

(***************************************************************************)
(* C19: a client disconnect that happens after the subprocess has been     *)
(* started does not stop the subprocess: with the client gone the tool can *)
(* still write and exit and its completion callback can still run; once    *)
(* the callback has run the deletion of the input file has been issued,    *)
(* and so has, once the download callback has run, the deletion of the     *)
(* output file the completed run produced (in the second definition also   *)
(* that of the file of a failed run).                                      *)
(***************************************************************************)
C19_DisconnectStopsNothing ==
  \A r \in Reqs : ~req[r].connected =>
    /\ req[r].invocations = 1
    /\ req[r].pc = "running" =>
         /\ ENABLED GsWrite(r)
         /\ \A error \in {"none", "exit", "launch"} : ENABLED ExecCallback(r, error, "")
    /\ req[r].pc = "wrote" =>
         \A error \in {"none", "exit"} : ENABLED ExecCallback(r, error, "")
    /\ req[r].pc = "download" => ENABLED DownloadStart(r, TRUE)
    /\ req[r].pc = "streaming" => ENABLED DownloadEnd(r, TRUE)
    /\ req[r].pc \in {"download", "streaming", "done"} => req[r].unlinkIn = 1
    /\ (Done(r) /\ req[r].error = "none") => req[r].unlinkOut = 1
    /\ (Done(r) /\ req[r].error # "none" /\ handlerDef = 2) => req[r].unlinkOut = 1
    /\ (Done(r) /\ Quiet(r)) => \A f \in FilesOf(r) : ~InInbound(f)

\* second definition: the client went away while the tool was running (a
\* failed request is finished by the exec callback itself), the tool exited
\* non-zero, its callback ran, and both deletions were issued and performed
C19_Witness ==
  \E r \in Reqs :
    /\ handlerDef = 2 /\ ~req[r].connected
    /\ req[r].error = "exit" /\ Done(r) /\ Quiet(r)
    /\ req[r].unlinkIn = 1 /\ req[r].unlinkOut = 1 /\ FilesOf(r) = {}

(***************************************************************************)
(* C20 as stated: a failure of the delivery of the response is logged      *)
(* only: in each of the two definitions no 500 is produced by a delivery   *)
(* error, and the deletion of the output file is still issued.             *)
(***************************************************************************)
DeliveryFailed(r) == req[r].download \in {"enoent", "aborted_early", "aborted"}

C20_DeliveryErrorNever500 ==
  \A r \in Reqs :
    DeliveryFailed(r) => req[r].status # 500 /\ req[r].unlinkOut = 1

(***************************************************************************)
(* C20 amended: a delivery error that occurs after the headers were sent   *)
(* is logged only (the response stays the 200 that was started); for one   *)
(* that occurs before any header was sent the first definition answers 500 *)
(* "Error sending the compressed file." and the second definition sends    *)
(* nothing; in every case the deletion of the output file is issued once.  *)
(***************************************************************************)
C20_DeliveryErrorByHeaders ==
  \A r \in Reqs :
    /\ DeliveryFailed(r) => Done(r) /\ req[r].unlinkOut = 1
    /\ req[r].download = "aborted" => req[r].status = 200
    /\ req[r].download \in {"enoent", "aborted_early"} =>
         IF handlerDef = 1
         THEN /\ req[r].status = 500
              /\ req[r].message = <<"Error sending the compressed file.", "">>
         ELSE req[r].status = 0

\* first definition: the output file was not there when the download started;
\* the request was answered 500 and the deletion of the output path was issued
\* and performed
C20_Witness ==
  \E r \in Reqs :
    /\ handlerDef = 1 /\ req[r].download = "enoent" /\ Done(r) /\ Quiet(r)
    /\ req[r].status = 500 /\ req[r].unlinkOut = 1

(***************************************************************************)
(* C21: on every invocation failure, a non-zero exit or a launch failure,  *)
(* the deletion of the input file has been issued, the deletion of the     *)
(* (partial) output file has been issued, and the 500 message carries the  *)
(* diagnostic stderr text when it is non-empty and the error's own message *)
(* otherwise.  The error branch of the first definition never unlinks the  *)
(* output path.                                                            *)
(***************************************************************************)
C21_FailureCleansBothFiles ==
  \A r \in Reqs :
    req[r].error \in {"exit", "launch"} =>
      /\ req[r].status = 500
      /\ req[r].unlinkIn = 1
      /\ req[r].unlinkOut = 1
      /\ req[r].message[2] = (IF req[r].stderr # "" THEN req[r].stderr ELSE ErrorMessage)

(***************************************************************************)
(* C22: for every trimmed original filename that starts with "." and       *)
(* contains no other "." (".pdf", ".bashrc"), the filename-generation      *)
(* logic of the second definition uses the fixed placeholder base name as  *)
(* the output base.  path.extname of such a name is "", so baseName is the *)
(* whole name and the placeholder branch is not taken.                     *)
(***************************************************************************)
PlaceholderBase ==
  <<"f", "i", "l", "e", USCORE, "f", "r", "o", "m", USCORE,
    "e", "x", "t", "e", "n", "s", "i", "o", "n">>

OnlyLeadingDot(s) ==
  /\ StartsWithDot(s)
  /\ \A i \in 2..Len(s) : s[i] # DOT

C22_DotNameGetsPlaceholder ==
  (handlerDef = 2 /\ probe.pc # "name" /\ OnlyLeadingDot(Trim(probe.name))) =>
    probe.base = PlaceholderBase

(***************************************************************************)
(* C23: on the success path the output file is never deleted before the    *)
(* streaming of the response has ended: until the download callback of a   *)
(* request has run no deletion of its output path has been issued for it,  *)
(* and while its response is being streamed the file is at its output      *)
(* path.  The download callback of another request that was given the same *)
(* output path deletes the file while the stream is open.                  *)
(***************************************************************************)
C23_OutputKeptWhileStreaming ==
  \A r \in Reqs :
    /\ (req[r].invocations = 1 /\ req[r].error = "none" /\ ~Done(r)) =>
         /\ req[r].unlinkOut = 0
         /\ \A u \in pendingUnlinks : ~(u.by = r /\ u.which = "out")
    /\ req[r].pc = "streaming" => Exists(files, req[r].outputPath)

(***************************************************************************)
(* C24: in every reachable state in which a file has been written to the   *)
(* inbound staging directory by the upload storage, or an output path has  *)
(* been handed to the external tool, the corresponding staging directory   *)
(* exists; and no create-if-absent step fails on a directory that already  *)
(* exists, whether the listen callback or another request created it: no   *)
(* request has had such a step throw, and the listen callback would not.   *)
(***************************************************************************)
C24_StagingDirectoriesExist ==
  /\ ~ListenThrows
  /\ \A r \in Reqs :
       /\ ~req[r].threw
       /\ req[r].hasFile => existsSync(dirs, UPLOAD_DIR)
       /\ req[r].invocations >= 1 => existsSync(dirs, COMPRESSED_DIR)
       /\ \A f \in FilesOf(r) :
            /\ InInbound(f) => existsSync(dirs, UPLOAD_DIR)
            /\ InOutbound(f) => existsSync(dirs, COMPRESSED_DIR)

\* first definition (mkdirSync without the recursive option): both requests
\* have run their create-if-absent steps on directories that were already
\* there, and both tools are running
C24_Witness ==
  /\ handlerDef = 1
  /\ \A r \in Reqs :
       /\ req[r].hasFile /\ req[r].pc \in {"running", "wrote"} /\ ~req[r].threw
       /\ [path |-> req[r].inputPath, by |-> r] \in files
  /\ req[1].inputPath # req[2].inputPath

(***************************************************************************)
(* C25: when the subprocess exits with status zero and wrote non-empty     *)
(* diagnostic text, the request still follows the success path: its exec   *)
(* callback goes on to the download, which can start, and the output file  *)
(* that is found is streamed with status 200; the diagnostic text appears  *)
(* in no response body.                                                    *)
(***************************************************************************)
C25_WarningsOnlyLogged ==
  \A r \in Reqs :
    (req[r].invocations = 1 /\ req[r].error = "none" /\ req[r].stderr # "") =>
      /\ req[r].pc \in {"download", "streaming", "done"}
      /\ req[r].pc = "download" => ENABLED DownloadStart(r, ~req[r].connected)
      /\ (req[r].pc = "streaming" \/ req[r].download \in {"sent", "aborted"}) =>
           req[r].status = 200 /\ req[r].message = <<>>
      /\ \A i \in 1..Len(req[r].message) : req[r].message[i] # req[r].stderr
      /\ req[r].message # <<>> => req[r].message[1] # "Error compressing PDF"

\* the tool exited with status zero and wrote diagnostics; the whole file was
\* sent with status 200
C25_Witness ==
  \E r \in Reqs :
    /\ req[r].error = "none" /\ req[r].stderr = "GS diagnostic"
    /\ Done(r) /\ req[r].download = "sent" /\ req[r].status = 200
    /\ req[r].message = <<>>

(***************************************************************************)
(* C26: each request has at most one response started for it: no path      *)
(* through the handler and its exec and download callbacks sends a second  *)
(* response after one has started, also when the download fails after the  *)
(* headers were sent; a request that has a status has exactly one response.*)
(***************************************************************************)
C26_AtMostOneResponse ==
  \A r \in Reqs :
    /\ req[r].sends <= 1
    /\ req[r].status # 0 => req[r].sends = 1
    /\ req[r].download = "aborted" => req[r].status = 200

\* first definition: the download was aborted after the headers were sent and
\* the download callback has run; the 200 is the only response
C26_Witness ==
  \E r \in Reqs :
    /\ handlerDef = 1 /\ req[r].download = "aborted" /\ Done(r)
    /\ req[r].status = 200 /\ req[r].sends = 1

(***************************************************************************)
(* C27: the deletion of a request's input file is never initiated before   *)
(* that request's subprocess has exited: while the subprocess runs no      *)
(* unlink of the input path has been issued for the request, and the input *)
(* file is at its path, so that the tool never has its input removed while *)
(* it is running.  A request that was given the same input path removes    *)
(* the file from its own exec callback or invalid-level branch.            *)
(***************************************************************************)
C27_InputKeptWhileRunning ==
  \A r \in Reqs :
    SubprocessRunning(r) =>
      /\ req[r].unlinkIn = 0
      /\ \A u \in pendingUnlinks : ~(u.by = r /\ u.which = "in")
      /\ Exists(files, req[r].inputPath)

(***************************************************************************)
(* C28: the output base-name computation of the second definition is       *)
(* idempotent: for every original filename n, applying the computation to  *)
(* its own result gives the same result, base(base(n)) = base(n).          *)
(***************************************************************************)
C28_BaseNameIdempotent ==
  (handlerDef = 2 /\ probe.pc = "again") => probe.again = probe.base

\* second definition: a name the computation changes (blank, dot and
\* underscore removed), whose result the computation leaves as it is
C28_Witness ==
  /\ handlerDef = 2 /\ probe.pc = "again"
  /\ probe.name = <<SP, DOT, USCORE, "p">>
  /\ probe.base = <<"p">> /\ probe.again = <<"p">>

====
